---- MODULE Spec2Model ----
(***************************************************************************)
(* Model of the coredns-nftables connection pool (NewCache / CloseCache /  *)
(* ClearCache), the per-connection recency cache (LruIgnoreIp /            *)
(* LruUpdateIp / gc) and the dispatcher pass (NftablesHandler.ServeWorker).*)
(*                                                                         *)
(* Time is a discrete clock `now`; the configured durations are expressed  *)
(* in its ticks.                                                           *)
(*                                                                         *)
(* Three specifications share the actions:                                 *)
(*   Spec      concurrent ServeWorker passes over the shared pool          *)
(*   SpecServe one ServeWorker at a time, over every kind of response      *)
(*   SpecLru   the recency cache methods called directly on one connection *)
(***************************************************************************)
EXTENDS Integers, Sequences, FiniteSets, TLC

\* ---------------------------------------------------------------- bounds
\* number of concurrent ServeWorker goroutines
NumWorkers == 2
\* number of connection objects NewCache may allocate in one behaviour
MaxConns == 2
\* the clock stops ticking here
MaxTime == 2
\* answer records per response
MaxAnswers == 2
\* cap on direct LruUpdateIp calls per entry in SpecLru
MaxCalls == 3

\* ------------------------------------------------------- configuration
\* values installed by SetConnectionTimeout, SetSetLruTimeout,
\* SetSetLruMaxCount and SetSetLruMaxRetryTimes, durations in clock ticks
cacheExpiredDuration == 1
setLruTimeout == 1
setLruMaxCount == 2
\* the value SetSetLruMaxRetryTimes installs, unless a specification says
\* otherwise
MaxRetryTimes == 2

Workers == 1..NumWorkers
ConnIds == 1..MaxConns
NoConn == 0
NoWorker == 0

\* address strings produced by A.String() / AAAA.String()
IPs == {"ip1", "ip2", "ip3"}

\* answer records: an A record, an AAAA record, and a record of another type
Answers ==
  { [Rrtype |-> "A", ip |-> "ip1"],
    [Rrtype |-> "AAAA", ip |-> "ip2"],
    [Rrtype |-> "CNAME", ip |-> ""] }

VARIABLES
  now,                        \* time.Now()
  cacheList,                  \* the pool queue (front = head of the sequence)
  cacheLock,                  \* the worker holding cacheLock, or NoWorker
  connState,                  \* per connection: "unborn", "live" or "destroyed"
  CreateTimepoint,            \* per connection
  HasNftableConnectionError,  \* per connection
  recentlyIPCache,            \* per connection: LRU list, head = least recently used
  pc,                         \* per worker: position in ServeWorker
  cache,                      \* per worker: the connection returned by NewCache
  todo,                       \* per worker: records of r.Answer the loop has not visited yet
  reuse,                      \* history: progress of an acquire, release, acquire sequence
  lastPool,                   \* history: the pool operation, if the last step was one
  lastPass,                   \* history: the recency cache use, if the last step was one
  applyCalls,                 \* history: per connection and address, LruUpdateIp calls since the entry was absent
  asyncMode,                  \* the package variable set by SetNftableAsyncMode
  handler,                    \* per worker: the ServeDNS call that starts its ServeWorker
  tables,                     \* per connection, family and table name: the cached handle, 0 for none
  resolveLog,                 \* history: per family and table name, the handle first returned and the external calls made
  lastResolve,                \* history: the MutableNftablesTable call, if the last step was one
  Rules,                      \* m.Rules: the rule appliers configured per table family
  setLruMaxRetryTimes         \* the package variable set by SetSetLruMaxRetryTimes

vars == <<now, cacheList, cacheLock, connState, CreateTimepoint,
          HasNftableConnectionError, recentlyIPCache, pc, cache, todo,
          reuse, lastPool, lastPass, applyCalls, asyncMode, handler, tables,
          resolveLog, lastResolve, Rules, setLruMaxRetryTimes>>

poolVars == <<cacheList, cacheLock, connState, CreateTimepoint,
              HasNftableConnectionError>>
workerVars == <<pc, cache, todo>>
dnsVars == <<asyncMode, handler>>
tableVars == <<tables, resolveLog, lastResolve>>
configVars == <<Rules, setLruMaxRetryTimes>>

\* ------------------------------------------------------------ helpers
Range(s) == { s[i] : i \in 1..Len(s) }

Age(c) == now - CreateTimepoint[c]

NoPass == [kind |-> "none"]
NoPool == [kind |-> "none"]
\* a configuration of m.Rules with one rule for each of three families
AllRules ==
  [f \in {"IPv4", "IPv6", "INet"} |->
     IF f = "IPv4" THEN <<"set4">>
     ELSE IF f = "IPv6" THEN <<"set6">>
     ELSE <<"setinet">>]

\* the configurations of m.Rules: the one above, and one with a rule for
\* IPv4 only, which leaves the families of an AAAA record without rules
RuleConfigs == { AllRules, [f \in {"IPv4"} |-> <<"set4">>] }

\* the table families and table names the rules name
Families == {"IPv4", "INet"}
TableNames == <<"filter", "nat">>
NoHandle == 0
NoTables == [f \in Families |-> [n \in Range(TableNames) |-> NoHandle]]
NoResolve == [kind |-> "none"]
NoLog == [first |-> NoTables,
          listings |-> [f \in Families |-> 0],
          creations |-> [f \in Families |-> [n \in Range(TableNames) |-> 0]]]

\* no ServeDNS call in progress and none made yet
NoRequest == [at |-> "idle", msg |-> <<>>, async |-> FALSE, written |-> FALSE,
              started |-> FALSE]
NoReuse == [st |-> 0, conn |-> NoConn, rest |-> <<>>, was |-> NoConn,
            alive |-> FALSE, alone |-> FALSE]

\* ------------------------------------------------ lru.Cache (golang-lru)
\* A cache is a sequence of entries [ip, ExpireTime, ApplyCount]; the head is
\* the least recently used entry, the last element the most recently used.
LruKeys(l) == { l[i].ip : i \in 1..Len(l) }

LruPos(l, ip) == CHOOSE i \in 1..Len(l) : l[i].ip = ip

LruPeek(l, ip) == l[LruPos(l, ip)]

LruRemoveAt(l, i) == SubSeq(l, 1, i - 1) \o SubSeq(l, i + 1, Len(l))

\* Cache.Get: a hit moves the entry to the most recently used position
LruGet(l, ip) ==
  IF ip \in LruKeys(l)
  THEN Append(LruRemoveAt(l, LruPos(l, ip)), LruPeek(l, ip))
  ELSE l

\* variant: nothing is evicted
LruAddUnbounded(l, e) ==
  IF e.ip \in LruKeys(l)
  THEN Append(LruRemoveAt(l, LruPos(l, e.ip)), e)
  ELSE Append(l, e)

\* Cache.Add: update and touch an existing key, otherwise insert as most
\* recently used and evict the oldest entry when the size is exceeded
LruAdd(l, e) ==
  IF e.ip \in LruKeys(l)
  THEN Append(LruRemoveAt(l, LruPos(l, e.ip)), e)
  ELSE LET grown == Append(l, e)
       IN IF Len(grown) > setLruMaxCount THEN Tail(grown) ELSE grown

\* ------------------------------------------------ recency cache methods
\* variant: the threshold itself does not count
LruIgnoreIpResultStrict(l, ip) ==
  IF setLruMaxCount <= 0 THEN FALSE
  ELSE IF ip = "" THEN FALSE
  ELSE IF ip \in LruKeys(l)
       THEN LruPeek(l, ip).ApplyCount > setLruMaxRetryTimes
       ELSE FALSE

\* variant: no address is ever ignored
LruIgnoreIpResultNever(l, ip) == FALSE

\* the result of LruIgnoreIp for an address string
LruIgnoreIpResult(l, ip) ==
  IF setLruMaxCount <= 0 THEN FALSE
  ELSE IF ip = "" THEN FALSE
  ELSE IF ip \in LruKeys(l)
       THEN LruPeek(l, ip).ApplyCount >= setLruMaxRetryTimes
       ELSE FALSE

\* variant: the entry is read without being touched
LruIgnoreIpPeeks(l, ip) == l

\* the cache after LruIgnoreIp (the Get touches the entry)
LruIgnoreIp(l, ip) ==
  IF setLruMaxCount <= 0 \/ ip = "" THEN l ELSE LruGet(l, ip)

\* variant: the count grows by rulesCounter
LruUpdateIpByCounter(l, ip, rulesCounter) ==
  IF setLruMaxCount <= 0 \/ ip = "" THEN l
  ELSE IF ip \in LruKeys(l)
       THEN LET touched == LruGet(l, ip)
                n == Len(touched)
            IN [touched EXCEPT ![n].ApplyCount = @ + rulesCounter]
       ELSE LruAdd(l, [ip |-> ip, ExpireTime |-> now + setLruTimeout,
                       ApplyCount |-> rulesCounter])

\* variant: a call for an existing entry renews its ExpireTime
LruUpdateIpRenews(l, ip, rulesCounter) ==
  IF setLruMaxCount <= 0 \/ ip = "" THEN l
  ELSE IF ip \in LruKeys(l)
       THEN LET touched == LruGet(l, ip)
                n == Len(touched)
            IN [touched EXCEPT ![n].ApplyCount = @ + 1,
                               ![n].ExpireTime = now + setLruTimeout]
       ELSE LruAdd(l, [ip |-> ip, ExpireTime |-> now + setLruTimeout,
                       ApplyCount |-> 1])

\* variant: nothing is recorded when no rule was applied
LruUpdateIpSkipsZero(l, ip, rulesCounter) ==
  IF setLruMaxCount <= 0 \/ ip = "" \/ rulesCounter = 0 THEN l
  ELSE IF ip \in LruKeys(l)
       THEN LET touched == LruGet(l, ip)
                n == Len(touched)
            IN [touched EXCEPT ![n].ApplyCount = @ + 1]
       ELSE LruAdd(l, [ip |-> ip, ExpireTime |-> now + setLruTimeout,
                       ApplyCount |-> 1])

\* the cache after LruUpdateIp(answer, rulesCounter)
LruUpdateIp(l, ip, rulesCounter) ==
  IF setLruMaxCount <= 0 \/ ip = "" THEN l
  ELSE IF ip \in LruKeys(l)
       THEN LET touched == LruGet(l, ip)
                n == Len(touched)
            IN [touched EXCEPT ![n].ApplyCount = @ + 1]
       ELSE LruAdd(l, [ip |-> ip, ExpireTime |-> now + setLruTimeout,
                       ApplyCount |-> 1])

\* variant: every expired entry is dropped, wherever it is
gcSweep(l) ==
  LET Live(e) == e.ExpireTime > now
  IN SelectSeq(l, Live)

\* the cache after gc(): drop expired entries from the least recently used end
RECURSIVE gc(_)
gc(l) ==
  IF Len(l) = 0 THEN l
  ELSE IF Head(l).ExpireTime > now THEN l
  ELSE gc(Tail(l))

\* applyCalls after a cache went from l to l2 with LruUpdateIp called on `called`
CallsAfter(calls, l2, called) ==
  [ip \in IPs |->
     IF ip \notin LruKeys(l2) THEN 0
     ELSE IF ip \in called THEN calls[ip] + 1
     ELSE calls[ip]]

NoCalls == [ip \in IPs |-> 0]


\* the entries gc() removes from a cache
Collected(l) == SubSeq(l, 1, Len(l) - Len(gc(l)))

\* ------------------------------------------------- history of the pool
\* reuse.st: 1 after NewCache returned reuse.conn leaving reuse.rest queued,
\* 2 when the very next pool operation was CloseCache queueing that
\* connection, 3 in the state right after the very next one, NewCache again,
\* which returned reuse.conn (NoConn: none of the queue) in place of reuse.was.
Settled ==
  IF reuse.st = 3
  THEN IF reuse.conn = NoConn THEN NoReuse
       ELSE [NoReuse EXCEPT !.st = 1, !.conn = reuse.conn, !.rest = reuse.rest]
  ELSE reuse

ReuseAcquire(c, rest) ==
  IF reuse.st = 2
  THEN [st |-> 3, conn |-> c, rest |-> rest, was |-> reuse.conn,
        alive |-> Age(reuse.conn) <= cacheExpiredDuration,
        alone |-> \A d \in Range(reuse.rest) : Age(d) > cacheExpiredDuration]
  ELSE IF c = NoConn THEN NoReuse
  ELSE [NoReuse EXCEPT !.st = 1, !.conn = c, !.rest = rest]

\* a connection destroyed by CloseCache leaves the queue as it was
ReuseRelease(c, pushed) ==
  IF pushed
  THEN IF reuse.st \in {1, 3} /\ reuse.conn = c
       THEN [NoReuse EXCEPT !.st = 2, !.conn = c, !.rest = reuse.rest]
       ELSE NoReuse
  ELSE IF reuse.conn = c THEN NoReuse ELSE Settled

PoolOp(kind, w, c, before, dropped, stale, collected, marked) ==
  [kind |-> kind, w |-> w, conn |-> c, before |-> before, dropped |-> dropped,
   stale |-> stale, collected |-> collected, marked |-> marked]

\* a step that is no pool operation and no use of a recency cache
Quiet ==
  /\ reuse' = Settled
  /\ lastPool' = NoPool
  /\ lastPass' = NoPass

\* --------------------------------------------------------------- Init
\* the package state before the first response: nothing pooled, no pass
Fresh ==
  /\ now = 0
  /\ cacheList = <<>>
  /\ cacheLock = NoWorker
  /\ connState = [c \in ConnIds |-> "unborn"]
  /\ CreateTimepoint = [c \in ConnIds |-> 0]
  /\ HasNftableConnectionError = [c \in ConnIds |-> FALSE]
  /\ recentlyIPCache = [c \in ConnIds |-> <<>>]
  /\ pc = [w \in Workers |-> "idle"]
  /\ cache = [w \in Workers |-> NoConn]
  /\ todo = [w \in Workers |-> 0]
  /\ reuse = NoReuse
  /\ lastPool = NoPool
  /\ lastPass = NoPass
  /\ applyCalls = [c \in ConnIds |-> NoCalls]
  /\ asyncMode = FALSE
  /\ handler = [w \in Workers |-> NoRequest]
  /\ tables = [c \in ConnIds |-> NoTables]
  /\ resolveLog = NoLog
  /\ lastResolve = NoResolve

Init ==
  /\ Fresh
  /\ Rules = AllRules
  /\ setLruMaxRetryTimes = MaxRetryTimes

\* ------------------------------------------------------ pool: NewCache
\* destroy(): the connection objects cs are handed to teardown and never used
\* again; nothing refers to their fields any more.  Connection c, if any,
\* gets the recency cache l, on which LruUpdateIp was called for `called`.
Destroy(cs, c, l, called) ==
  /\ connState' = [d \in ConnIds |-> IF d \in cs THEN "destroyed" ELSE connState[d]]
  /\ recentlyIPCache' =
       [d \in ConnIds |->
          IF d \in cs THEN <<>> ELSE IF d = c THEN l ELSE recentlyIPCache[d]]
  /\ applyCalls' =
       [d \in ConnIds |->
          IF d \in cs THEN NoCalls
          ELSE IF d = c THEN CallsAfter(applyCalls[d], l, called)
          ELSE applyCalls[d]]

Forgotten(f, cs, zero) == [d \in ConnIds |-> IF d \in cs THEN zero ELSE f[d]]

\* the queued connections that are over cacheExpiredDuration
Stale(q) == { c \in Range(q) : Age(c) > cacheExpiredDuration }

\* variant: the connection returned stays at the front of the queue
RECURSIVE PopExpiredKeepsHead(_, _)
PopExpiredKeepsHead(q, dropped) ==
  IF q = <<>> THEN [head |-> NoConn, rest |-> <<>>, dropped |-> dropped]
  ELSE IF Age(Head(q)) > cacheExpiredDuration
       THEN PopExpiredKeepsHead(Tail(q), dropped \cup {Head(q)})
       ELSE [head |-> Head(q), rest |-> q, dropped |-> dropped]

\* variant: the front is returned without looking at its age
PopExpiredNoAgeTest(q, dropped) ==
  IF q = <<>> THEN [head |-> NoConn, rest |-> <<>>, dropped |-> dropped]
  ELSE [head |-> Head(q), rest |-> Tail(q), dropped |-> dropped]

\* variant: over-age connections are stepped over and stay queued
PopExpiredSkips(q, dropped) ==
  LET live == { i \in 1..Len(q) : Age(q[i]) <= cacheExpiredDuration }
  IN IF live = {}
     THEN [head |-> NoConn, rest |-> <<>>, dropped |-> dropped \cup Range(q)]
     ELSE LET i == CHOOSE j \in live : \A k \in live : j <= k
          IN [head |-> q[i], rest |-> LruRemoveAt(q, i), dropped |-> dropped]

\* the loop of NewCache: pop the front while it is over cacheExpiredDuration
RECURSIVE PopExpired(_, _)
PopExpired(q, dropped) ==
  IF q = <<>> THEN [head |-> NoConn, rest |-> <<>>, dropped |-> dropped]
  ELSE IF Age(Head(q)) > cacheExpiredDuration
       THEN PopExpired(Tail(q), dropped \cup {Head(q)})
       ELSE [head |-> Head(q), rest |-> Tail(q), dropped |-> dropped]

\* ServeWorker is entered with a response of n answer records
Enter(w, n) ==
  /\ pc[w] = "idle"
  /\ pc' = [pc EXCEPT ![w] = "nc_lock"]
  /\ todo' = [todo EXCEPT ![w] = n]
  /\ Quiet
  /\ UNCHANGED <<now, poolVars, recentlyIPCache, cache, applyCalls>>

\* ServeWorker called for a response, whoever the caller
Begin(w, n) ==
  /\ Enter(w, n)
  /\ UNCHANGED <<configVars, dnsVars, tableVars>>

\* NewCache: cacheLock.Lock()
NewCacheLock(w) ==
  /\ pc[w] = "nc_lock"
  /\ cacheLock = NoWorker
  /\ cacheLock' = w
  /\ pc' = [pc EXCEPT ![w] = "nc_scan"]
  /\ Quiet
  /\ UNCHANGED <<configVars, dnsVars, tableVars, now, cacheList, connState, CreateTimepoint,
                 HasNftableConnectionError, recentlyIPCache, cache, todo,
                 applyCalls>>

\* NewCache: the pop loop.  A connection within its lifetime is garbage
\* collected and returned (the deferred Unlock runs at that return); when the
\* queue runs empty the function goes on to openSystemNFTConn with the
\* deferred Unlock still pending.
NewCacheScan(w) ==
  /\ pc[w] = "nc_scan"
  /\ LET s == PopExpired(cacheList, {})
         l == IF s.head = NoConn THEN <<>> ELSE recentlyIPCache[s.head]
     IN /\ cacheList' = s.rest
        /\ Destroy(s.dropped, s.head, gc(l), {})
        /\ CreateTimepoint' = Forgotten(CreateTimepoint, s.dropped, 0)
        /\ HasNftableConnectionError' =
             Forgotten(HasNftableConnectionError, s.dropped, FALSE)
        /\ reuse' = ReuseAcquire(s.head, s.rest)
        /\ lastPool' =
             PoolOp(IF s.head = NoConn THEN "emptied" ELSE "reused", w, s.head,
                    cacheList, s.dropped, Stale(cacheList), Collected(l), FALSE)
        /\ IF s.head # NoConn
           THEN /\ cacheLock' = NoWorker
                /\ pc' = [pc EXCEPT ![w] = "serve"]
                /\ cache' = [cache EXCEPT ![w] = s.head]
           ELSE /\ pc' = [pc EXCEPT ![w] = "nc_open"]
                /\ UNCHANGED <<cacheLock, cache>>
  /\ lastPass' = NoPass
  /\ UNCHANGED <<configVars, dnsVars, tableVars, now, todo>>

\* the connection object NewCache allocates next
NextConn == CHOOSE c \in ConnIds :
              /\ connState[c] = "unborn"
              /\ \A d \in ConnIds : connState[d] = "unborn" => c <= d

\* variant: the error of NewCache is not looked at
AfterNewCacheUnchecked(ok) == "serve"

\* ServeWorker after NewCache: on an error it returns, before any defer
AfterNewCache(ok) == IF ok THEN "serve" ELSE "idle"

\* NewCache: openSystemNFTConn returns.  On an error NewCache returns it and
\* ServeWorker returns at once; otherwise a new connection object is built.
\* Either return runs the deferred Unlock.
NewCacheOpen(w, ok) ==
  /\ pc[w] = "nc_open"
  /\ cacheLock' = NoWorker
  /\ IF ok
     THEN /\ \E c \in ConnIds : connState[c] = "unborn"
          /\ connState' = [connState EXCEPT ![NextConn] = "live"]
          /\ CreateTimepoint' = [CreateTimepoint EXCEPT ![NextConn] = now]
          /\ pc' = [pc EXCEPT ![w] = AfterNewCache(ok)]
          /\ cache' = [cache EXCEPT ![w] = NextConn]
          /\ reuse' = [NoReuse EXCEPT !.st = 1, !.conn = NextConn,
                                      !.rest = cacheList]
          /\ lastPool' = PoolOp("new", w, NextConn, cacheList, {},
                                Stale(cacheList), <<>>, FALSE)
          /\ UNCHANGED todo
     ELSE /\ pc' = [pc EXCEPT ![w] = AfterNewCache(ok)]
          /\ todo' = [todo EXCEPT ![w] = 0]
          /\ reuse' = NoReuse
          /\ lastPool' = PoolOp("failed", w, NoConn, cacheList, {},
                                Stale(cacheList), <<>>, FALSE)
          /\ UNCHANGED <<connState, CreateTimepoint, cache>>
  /\ lastPass' = NoPass
  /\ UNCHANGED <<configVars, dnsVars, tableVars, now, cacheList, HasNftableConnectionError, recentlyIPCache,
                 applyCalls>>

\* ---------------------------------------------------- pool: CloseCache
\* the worker's locals once ServeWorker has returned
Returned(w) ==
  /\ pc' = [pc EXCEPT ![w] = "idle"]
  /\ cache' = [cache EXCEPT ![w] = NoConn]
  /\ todo' = [todo EXCEPT ![w] = 0]

\* variant: the error mark is not looked at
DiscardAgeOnly(marked, age) == age > cacheExpiredDuration

\* CloseCache: the test that sends a connection to destroy() instead of the queue
Discard(marked, age) == marked \/ age > cacheExpiredDuration

\* CloseCache: Flush returns; a failure marks the connection.  A marked or
\* over-age connection is destroyed, any other goes on to be queued.
CloseCacheFlush(w, flushOk) ==
  /\ pc[w] = "cc_flush"
  /\ LET c == cache[w]
         marked == HasNftableConnectionError[c] \/ ~flushOk
     IN IF Discard(marked, Age(c))
        THEN /\ Destroy({c}, NoConn, <<>>, {})
             /\ CreateTimepoint' = Forgotten(CreateTimepoint, {c}, 0)
             /\ HasNftableConnectionError' =
                  Forgotten(HasNftableConnectionError, {c}, FALSE)
             /\ reuse' = ReuseRelease(c, FALSE)
             /\ lastPool' = PoolOp("destroyed", w, c, cacheList, {},
                                   Stale(cacheList), <<>>, marked)
             /\ Returned(w)
        ELSE /\ HasNftableConnectionError' =
                  [HasNftableConnectionError EXCEPT ![c] = marked]
             /\ pc' = [pc EXCEPT ![w] = "cc_lock"]
             /\ reuse' = Settled
             /\ lastPool' = NoPool
             /\ UNCHANGED <<connState, CreateTimepoint, recentlyIPCache,
                            applyCalls, cache, todo>>
  /\ lastPass' = NoPass
  /\ UNCHANGED <<configVars, dnsVars, tableVars, now, cacheList, cacheLock>>

\* CloseCache: cacheLock.Lock()
CloseCacheLock(w) ==
  /\ pc[w] = "cc_lock"
  /\ cacheLock = NoWorker
  /\ cacheLock' = w
  /\ pc' = [pc EXCEPT ![w] = "cc_push"]
  /\ Quiet
  /\ UNCHANGED <<configVars, dnsVars, tableVars, now, cacheList, connState, CreateTimepoint,
                 HasNftableConnectionError, recentlyIPCache, cache, todo,
                 applyCalls>>

\* variant: the connection is not put back
QueueAfterPushLost(q, c) == q

\* cacheList.PushBack(cache)
QueueAfterPush(q, c) == Append(q, c)

\* CloseCache: PushBack, then the deferred Unlock at the return
CloseCachePush(w) ==
  /\ pc[w] = "cc_push"
  /\ cacheList' = QueueAfterPush(cacheList, cache[w])
  /\ cacheLock' = NoWorker
  /\ reuse' = ReuseRelease(cache[w], TRUE)
  /\ lastPool' = PoolOp("queued", w, cache[w], cacheList, {}, Stale(cacheList),
                        <<>>, HasNftableConnectionError[cache[w]])
  /\ Returned(w)
  /\ lastPass' = NoPass
  /\ UNCHANGED <<configVars, dnsVars, tableVars, now, connState, CreateTimepoint, HasNftableConnectionError,
                 recentlyIPCache, applyCalls>>

\* ---------------------------------------------------- pool: ClearCache
\* ClearCache: under the lock, drain the queue and destroy every entry
ClearCache ==
  /\ cacheLock = NoWorker
  /\ cacheList # <<>>
  /\ cacheList' = <<>>
  /\ Destroy(Range(cacheList), NoConn, <<>>, {})
  /\ CreateTimepoint' = Forgotten(CreateTimepoint, Range(cacheList), 0)
  /\ HasNftableConnectionError' =
       Forgotten(HasNftableConnectionError, Range(cacheList), FALSE)
  /\ reuse' = NoReuse
  /\ lastPool' = PoolOp("cleared", NoWorker, NoConn, cacheList, Range(cacheList),
                        Stale(cacheList), <<>>, FALSE)
  /\ lastPass' = NoPass
  /\ UNCHANGED <<configVars, dnsVars, tableVars, now, cacheLock, workerVars>>

\* time passes
Tick ==
  /\ now < MaxTime
  /\ now' = now + 1
  /\ Quiet
  /\ UNCHANGED <<configVars, dnsVars, tableVars, poolVars, recentlyIPCache, workerVars, applyCalls>>

\* ------------------------------------------------ dispatcher: ServeWorker
\* tableFamilies for a record type that is not ignored
TableFamilies(rrtype) ==
  IF rrtype = "A" THEN <<"IPv4", "INet", "Bridge">>
  ELSE IF rrtype = "AAAA" THEN <<"IPv6", "INet", "Bridge">>
  ELSE <<>>

\* the (family, rule) pairs the two nested loops visit, in order
RECURSIVE ApplierCalls(_)
ApplierCalls(families) ==
  IF families = <<>> THEN <<>>
  ELSE LET f == Head(families)
           here == IF f \in DOMAIN Rules
                   THEN [i \in 1..Len(Rules[f]) |->
                           [family |-> f, rule |-> Rules[f][i]]]
                   ELSE <<>>
       IN here \o ApplierCalls(Tail(families))

\* what one rule.ServeDNS call can report: applied, ignored by the applier,
\* an error, or an error of cache.SetAddElements (which marks the connection)
Outcomes == {"ok", "ignored", "err", "seterr"}

\* trace and afterError are history: the calls made, in order, and how many
\* of them came after the first error
NoRun == [hasError |-> FALSE, applyCounter |-> 0, marked |-> FALSE, invoked |-> 0,
          trace |-> <<>>, afterError |-> 0]

\* the body of the inner loop for one applier result
ApplierResult(acc, o) ==
  [hasError |-> acc.hasError \/ o \in {"err", "seterr"},
   applyCounter |-> IF o \notin {"err", "seterr", "ignored"}
                    THEN acc.applyCounter + 1 ELSE acc.applyCounter,
   marked |-> acc.marked \/ o = "seterr",
   invoked |-> acc.invoked + 1,
   trace |-> acc.trace,
   afterError |-> IF acc.hasError THEN acc.afterError + 1 ELSE 0]

\* variant: the loops are left at the first error
RECURSIVE RunAppliersStopOnError(_, _, _)
RunAppliersStopOnError(calls, outs, acc) ==
  IF calls = <<>> \/ acc.hasError THEN acc
  ELSE RunAppliersStopOnError(
         Tail(calls), Tail(outs),
         [ApplierResult(acc, Head(outs)) EXCEPT
            !.trace = Append(@, Head(calls))])

\* the loops over families and rules: every call is made, whatever the
\* earlier ones reported
RECURSIVE RunAppliers(_, _, _)
RunAppliers(calls, outs, acc) ==
  IF calls = <<>> THEN acc
  ELSE RunAppliers(Tail(calls), Tail(outs),
                   [ApplierResult(acc, Head(outs)) EXCEPT
                      !.trace = Append(@, Head(calls))])

\* variant: the update is made whatever the appliers reported
RecordedAlways(hasError) == TRUE

\* if !hasError { cache.LruUpdateIp(...) }
Recorded(hasError) == ~hasError

\* the value stored for an address, <<0, 0>> when there is none
EntryOf(l, ip) ==
  IF ip \in LruKeys(l)
  THEN <<LruPeek(l, ip).ExpireTime, LruPeek(l, ip).ApplyCount>>
  ELSE <<0, 0>>

Pass(kind, w, c, ip, ignore, r, before, after) ==
  [kind |-> kind, w |-> w, conn |-> c, ip |-> ip, ignore |-> ignore,
   hasError |-> r.hasError, applyCounter |-> r.applyCounter,
   invoked |-> r.invoked, trace |-> r.trace, afterError |-> r.afterError,
   left |-> todo[w], before |-> before, after |-> after]

\* one iteration of the loop over r.Answer, for the record `answer`.  outs
\* are the results the appliers report, in call order.
ServeRecord(w, answer, outs) ==
  /\ pc[w] = "serve"
  /\ todo[w] > 0
  /\ LET c == cache[w]
         l == recentlyIPCache[c]
         isAddr == answer.Rrtype \in {"A", "AAAA"}
         ignore == isAddr /\ LruIgnoreIpResult(l, answer.ip)
         checked == IF isAddr THEN LruIgnoreIp(l, answer.ip) ELSE l
         calls == IF isAddr /\ ~ignore
                  THEN ApplierCalls(TableFamilies(answer.Rrtype)) ELSE <<>>
     IN /\ Len(outs) = Len(calls)
        /\ LET r == RunAppliers(calls, outs, NoRun)
               record == isAddr /\ ~ignore /\ Recorded(r.hasError)
               after == IF record
                        THEN LruUpdateIp(checked, answer.ip, r.applyCounter)
                        ELSE checked
           IN /\ recentlyIPCache' = [recentlyIPCache EXCEPT ![c] = after]
              /\ applyCalls' =
                   [applyCalls EXCEPT
                      ![c] = CallsAfter(@, after,
                                        IF record THEN {answer.ip} ELSE {})]
              /\ HasNftableConnectionError' =
                   [HasNftableConnectionError EXCEPT ![c] = @ \/ r.marked]
              /\ lastPass' =
                   Pass(IF ~isAddr THEN "skipped"
                        ELSE IF ignore THEN "ignored" ELSE "dispatched",
                        w, c, answer.ip, ignore, r, l, after)
  /\ todo' = [todo EXCEPT ![w] = @ - 1]
  /\ reuse' = Settled
  /\ lastPool' = NoPool
  /\ UNCHANGED <<configVars, dnsVars, tableVars, now, cacheList, cacheLock, connState, CreateTimepoint, pc,
                 cache>>

\* the loop is over: ServeWorker returns and the deferred CloseCache starts
\* with its Flush call
ServeReturn(w) ==
  /\ pc[w] = "serve"
  /\ todo[w] = 0
  /\ pc' = [pc EXCEPT ![w] = "cc_flush"]
  /\ Quiet
  /\ UNCHANGED <<configVars, dnsVars, tableVars, now, poolVars, recentlyIPCache, cache, todo, applyCalls>>

\* ------------------------------------------------- handler: ServeDNS
\* the responses the next plugin can produce
Msgs == UNION { [1..n -> Answers] : n \in 0..MaxAnswers }

\* hasValidRecord: the response has an A or AAAA record
HasValidRecord(msg) ==
  \E i \in 1..Len(msg) : msg[i].Rrtype \in {"A", "AAAA"}

\* variant: the response is always written first
BranchWriteFirst(valid, async) ==
  IF ~valid THEN "write_only" ELSE "async_write"

\* where ServeDNS goes once it has the response: the plain write, the
\* asynchronous branch or the synchronous one
Branch(valid, async) ==
  IF ~valid THEN "write_only"
  ELSE IF async THEN "async_write"
  ELSE "sync_call"

\* the record the loop of ServeWorker visits next, of the response the
\* handler passed
NextAnswer(w) ==
  handler[w].msg[Len(handler[w].msg) - todo[w] + 1]

\* a step of ServeDNS outside ServeWorker
HandlerStep ==
  /\ Quiet
  /\ UNCHANGED <<now, poolVars, recentlyIPCache, workerVars, applyCalls,
                 asyncMode, tableVars, configVars>>

\* ServeDNS up to the mode test: the next plugin answered with msg
ServeDNS(w, msg) ==
  /\ handler[w].at = "idle"
  /\ pc[w] = "idle"
  /\ handler' = [handler EXCEPT
                   ![w] = [NoRequest EXCEPT
                             !.at = Branch(HasValidRecord(msg), asyncMode),
                             !.msg = msg,
                             !.async = asyncMode]]
  /\ HandlerStep

\* w.WriteMsg(r) of a response without address records, and the return
WriteOnly(w) ==
  /\ handler[w].at = "write_only"
  /\ handler' = [handler EXCEPT ![w].at = "idle", ![w].written = TRUE]
  /\ HandlerStep

\* asynchronous mode: w.WriteMsg(r)
AsyncWrite(w) ==
  /\ handler[w].at = "async_write"
  /\ handler' = [handler EXCEPT ![w].at = "async_go", ![w].written = TRUE]
  /\ HandlerStep

\* asynchronous mode: go m.ServeWorker(...), and the return of ServeDNS
AsyncGo(w) ==
  /\ handler[w].at = "async_go"
  /\ handler' = [handler EXCEPT ![w].at = "idle", ![w].started = TRUE]
  /\ Enter(w, Len(handler[w].msg))
  /\ UNCHANGED <<asyncMode, tableVars, configVars>>

\* synchronous mode: the call m.ServeWorker(...)
SyncCall(w) ==
  /\ handler[w].at = "sync_call"
  /\ handler' = [handler EXCEPT ![w].at = "sync_wait", ![w].started = TRUE]
  /\ Enter(w, Len(handler[w].msg))
  /\ UNCHANGED <<asyncMode, tableVars, configVars>>

\* synchronous mode: ServeWorker has returned; w.WriteMsg(r) and the return
SyncWrite(w) ==
  /\ handler[w].at = "sync_wait"
  /\ pc[w] = "idle"
  /\ handler' = [handler EXCEPT ![w].at = "idle", ![w].written = TRUE]
  /\ HandlerStep

SetNftableAsyncMode(mode) ==
  /\ asyncMode # mode
  /\ asyncMode' = mode
  /\ Quiet
  /\ UNCHANGED <<now, poolVars, recentlyIPCache, workerVars, applyCalls,
                 handler, tableVars, configVars>>

\* the connection whose caches SpecLru and SpecTable drive
LruConn == CHOOSE c \in ConnIds : \A d \in ConnIds : c <= d

\* ------------------------------------------ MutableNftablesTable
\* the largest handle in use on a connection
MaxHandle(t) ==
  CHOOSE h \in 0..(Cardinality(Families) * Len(TableNames)) :
    /\ h = NoHandle \/ \E f \in Families, n \in Range(TableNames) : t[f][n] = h
    /\ \A f \in Families, n \in Range(TableNames) : t[f][n] <= h

\* the place of a listed table in the listing
Rank(n, listing) ==
  Cardinality({ i \in 1..Len(TableNames) :
                  /\ TableNames[i] \in listing
                  /\ \E j \in i..Len(TableNames) : TableNames[j] = n })

\* variant: the family is listed on every call
NeedsListingAlways(tset) == TRUE

\* len(*tableSet) == 0
NeedsListing(tset) == \A n \in Range(TableNames) : tset[n] = NoHandle

\* MutableNftablesTable(family, tableName) on a connection whose table cache
\* is t, when ListTablesOfFamily would report the tables `listing`: the
\* cache afterwards, the handle returned and the external calls made
MutableNftablesTable(t, family, tableName, listing) ==
  LET list == NeedsListing(t[family])
      base == MaxHandle(t)
      filled == [n \in Range(TableNames) |->
                   IF list /\ n \in listing
                   THEN base + Rank(n, listing)
                   ELSE t[family][n]]
      ok == filled[tableName] # NoHandle
      after == [t EXCEPT ![family] = filled]
      handle == IF ok THEN filled[tableName] ELSE MaxHandle(after) + 1
  IN [tables |-> [after EXCEPT ![family][tableName] = handle],
      handle |-> handle,
      listed |-> IF list THEN 1 ELSE 0,
      created |-> IF ok THEN 0 ELSE 1]

\* a rule applier resolves its table on connection LruConn
ResolveTable(family, tableName, listing) ==
  LET r == MutableNftablesTable(tables[LruConn], family, tableName, listing)
      first == resolveLog.first[family][tableName]
  IN /\ tables' = [tables EXCEPT ![LruConn] = r.tables]
     /\ resolveLog' =
          [first |-> IF first = NoHandle
                     THEN [resolveLog.first EXCEPT ![family][tableName] = r.handle]
                     ELSE resolveLog.first,
           listings |-> [resolveLog.listings EXCEPT ![family] = @ + r.listed],
           creations |-> [resolveLog.creations EXCEPT
                            ![family][tableName] = @ + r.created]]
     /\ lastResolve' = [kind |-> "resolve", family |-> family,
                        name |-> tableName, handle |-> r.handle,
                        listed |-> r.listed, created |-> r.created,
                        first |-> first]
     /\ Quiet
     /\ UNCHANGED <<now, poolVars, recentlyIPCache, workerVars, applyCalls,
                    dnsVars, configVars>>

\* --------------------------------- the cache methods called on their own
DirectCall(kind, ip, ignore, after) ==
  /\ recentlyIPCache' = [recentlyIPCache EXCEPT ![LruConn] = after]
  /\ applyCalls' =
       [applyCalls EXCEPT
          ![LruConn] = CallsAfter(@, after,
                                  IF kind = "update" THEN {ip} ELSE {})]
  /\ lastPass' = Pass(kind, 1, LruConn, ip, ignore, NoRun,
                      recentlyIPCache[LruConn], after)
  /\ reuse' = Settled
  /\ lastPool' = NoPool
  /\ UNCHANGED <<configVars, dnsVars, tableVars, now, poolVars, workerVars>>

RecordApply(ip, k) ==
  /\ EntryOf(recentlyIPCache[LruConn], ip)[2] < MaxCalls
  /\ DirectCall("update", ip, FALSE,
                LruUpdateIp(recentlyIPCache[LruConn], ip, k))

ShouldIgnore(ip) ==
  DirectCall("check", ip, LruIgnoreIpResult(recentlyIPCache[LruConn], ip),
             LruIgnoreIp(recentlyIPCache[LruConn], ip))

GarbageCollect ==
  DirectCall("gc", "", FALSE, gc(recentlyIPCache[LruConn]))

\* ------------------------------------------------------ specifications
\* the record of the responses of the concurrent specification: an A record
PoolAnswers == { a \in Answers : a.ip = "ip1" }

OutcomeSeqs == UNION { [1..n -> Outcomes] : n \in 0..2 }

Next ==
  \/ \E w \in Workers : Begin(w, 1)
  \/ \E w \in Workers : NewCacheLock(w)
  \/ \E w \in Workers : NewCacheScan(w)
  \/ \E w \in Workers, ok \in BOOLEAN : NewCacheOpen(w, ok)
  \/ \E w \in Workers, a \in PoolAnswers, outs \in OutcomeSeqs :
       ServeRecord(w, a, outs)
  \/ \E w \in Workers : ServeReturn(w)
  \/ \E w \in Workers, flushOk \in BOOLEAN : CloseCacheFlush(w, flushOk)
  \/ \E w \in Workers : CloseCacheLock(w)
  \/ \E w \in Workers : CloseCachePush(w)
  \/ ClearCache
  \/ Tick

Spec == Init /\ [][Next]_vars

\* what the runtime and the callees give a pass that has started: its own
\* steps are taken, a goroutine waiting for cacheLock gets it when it is
\* released again and again, and the rule appliers and Flush return.
\* Nothing makes openSystemNFTConn return.
PassFairness ==
  \A w \in Workers :
    /\ SF_vars(NewCacheLock(w))
    /\ WF_vars(NewCacheScan(w))
    /\ WF_vars(\E a \in PoolAnswers, outs \in OutcomeSeqs : ServeRecord(w, a, outs))
    /\ WF_vars(ServeReturn(w))
    /\ WF_vars(\E flushOk \in BOOLEAN : CloseCacheFlush(w, flushOk))
    /\ SF_vars(CloseCacheLock(w))
    /\ WF_vars(CloseCachePush(w))

SpecFair == Init /\ [][Next]_vars /\ PassFairness

\* openSystemNFTConn returns as well
ConnectReturns ==
  \A w \in Workers : WF_vars(\E ok \in BOOLEAN : NewCacheOpen(w, ok))

SpecFairConnect == SpecFair /\ ConnectReturns

NextServe ==
  \/ \E n \in 1..MaxAnswers : Begin(1, n)
  \/ NewCacheLock(1)
  \/ NewCacheScan(1)
  \/ \E ok \in BOOLEAN : NewCacheOpen(1, ok)
  \/ \E a \in Answers, outs \in OutcomeSeqs : ServeRecord(1, a, outs)
  \/ ServeReturn(1)
  \/ \E flushOk \in BOOLEAN : CloseCacheFlush(1, flushOk)
  \/ CloseCacheLock(1)
  \/ CloseCachePush(1)
  \/ ClearCache
  \/ Tick

\* as Init, with any of the configurations of m.Rules
InitServe ==
  /\ Fresh
  /\ Rules \in RuleConfigs
  /\ setLruMaxRetryTimes = MaxRetryTimes

SpecServe == InitServe /\ [][NextServe]_vars

\* ServeWorker started by ServeDNS only
NextDNS ==
  \/ \E msg \in Msgs : ServeDNS(1, msg)
  \/ WriteOnly(1)
  \/ AsyncWrite(1)
  \/ AsyncGo(1)
  \/ SyncCall(1)
  \/ SyncWrite(1)
  \/ \E mode \in BOOLEAN : SetNftableAsyncMode(mode)
  \/ NewCacheLock(1)
  \/ NewCacheScan(1)
  \/ \E ok \in BOOLEAN : NewCacheOpen(1, ok)
  \/ \E outs \in OutcomeSeqs : ServeRecord(1, NextAnswer(1), outs)
  \/ ServeReturn(1)
  \/ \E flushOk \in BOOLEAN : CloseCacheFlush(1, flushOk)
  \/ CloseCacheLock(1)
  \/ CloseCachePush(1)
  \/ ClearCache
  \/ Tick

SpecDNS == Init /\ [][NextDNS]_vars

\* as Init, with any retry limit up to MaxRetryTimes, none included
InitRetry ==
  /\ Fresh
  /\ Rules = AllRules
  /\ setLruMaxRetryTimes \in 0..MaxRetryTimes

SpecRetry == InitRetry /\ [][NextServe]_vars

\* connection LruConn has been created and is checked out by worker 1
InitLru ==
  /\ now = 0
  /\ cacheList = <<>>
  /\ cacheLock = NoWorker
  /\ connState = [c \in ConnIds |-> IF c = LruConn THEN "live" ELSE "unborn"]
  /\ CreateTimepoint = [c \in ConnIds |-> 0]
  /\ HasNftableConnectionError = [c \in ConnIds |-> FALSE]
  /\ recentlyIPCache = [c \in ConnIds |-> <<>>]
  /\ pc = [w \in Workers |-> IF w = 1 THEN "serve" ELSE "idle"]
  /\ cache = [w \in Workers |-> IF w = 1 THEN LruConn ELSE NoConn]
  /\ todo = [w \in Workers |-> 0]
  /\ reuse = NoReuse
  /\ lastPool = NoPool
  /\ lastPass = NoPass
  /\ applyCalls = [c \in ConnIds |-> NoCalls]
  /\ asyncMode = FALSE
  /\ handler = [w \in Workers |-> NoRequest]
  /\ tables = [c \in ConnIds |-> NoTables]
  /\ resolveLog = NoLog
  /\ lastResolve = NoResolve
  /\ Rules = AllRules
  /\ setLruMaxRetryTimes = MaxRetryTimes

NextLru ==
  \/ \E ip \in IPs, k \in 0..2 : RecordApply(ip, k)
  \/ \E ip \in IPs : ShouldIgnore(ip)
  \/ GarbageCollect
  \/ Tick

SpecLru == InitLru /\ [][NextLru]_vars

NextTable ==
  \E family \in Families, i \in 1..Len(TableNames),
     listing \in SUBSET Range(TableNames) :
    ResolveTable(family, TableNames[i], listing)

SpecTable == InitLru /\ [][NextTable]_vars

\* ============================================================== claims
Holders(c) == { w \in Workers : cache[w] = c }

Acquired == lastPool.kind \in {"reused", "new"}

\* C1: a connection is held by at most one ServeWorker pass, and a
\* connection held by a pass is not in the pool queue.
C1_ExclusiveOwnership ==
  \A c \in ConnIds :
    /\ Cardinality(Holders(c)) <= 1
    /\ Holders(c) # {} => c \notin Range(cacheList)

\* two passes hold connections at once, one of them just taken from the pool
C1_Witness ==
  /\ lastPool.kind = "reused"
  /\ \E v, w \in Workers :
       v # w /\ cache[v] # NoConn /\ cache[w] # NoConn

\* C2: the connection NewCache hands out is not older than
\* cacheExpiredDuration at that moment; every entry popped before it was over
\* age and went to destroy(); the pop loop ends only with a connection within
\* its lifetime or with the queue empty.
C2_TTLOnHandOut ==
  /\ Acquired =>
       /\ Age(lastPool.conn) <= cacheExpiredDuration
       /\ cache[lastPool.w] = lastPool.conn
  /\ lastPool.kind \in {"reused", "emptied"} =>
       \A c \in lastPool.dropped :
         /\ c \in lastPool.stale
         /\ connState[c] = "destroyed"
  /\ lastPool.kind = "emptied" =>
       /\ cacheList = <<>>
       /\ lastPool.dropped = Range(lastPool.before)

\* an over-age entry was popped, then one within its lifetime was returned
C2_Witness ==
  /\ lastPool.kind = "reused"
  /\ lastPool.dropped # {}

\* C3 as claimed: when NewCache returns a connection, no connection that was
\* queued with age > cacheExpiredDuration at that call is still queued.
C3_NoStaleLeft ==
  Acquired =>
    \A c \in lastPool.stale : c \notin Range(cacheList)

\* C3 amended: when NewCache returns a pooled connection, every connection
\* that was ahead of it in the queue was over age and has been removed and
\* destroyed, and the connections behind it stay queued in their order,
\* whatever their age; NewCache goes on to open a new connection only after
\* it removed and destroyed every queued connection, all of them over age.
C3_ExpiredAheadDiscarded ==
  /\ lastPool.kind = "reused" =>
       LET q == lastPool.before
           i == CHOOSE j \in 1..Len(q) : q[j] = lastPool.conn
       IN /\ lastPool.conn \in Range(q)
          /\ \A j \in 1..(i - 1) :
               /\ q[j] \in lastPool.stale
               /\ connState[q[j]] = "destroyed"
               /\ q[j] \notin Range(cacheList)
          /\ cacheList = SubSeq(q, i + 1, Len(q))
  /\ lastPool.kind = "emptied" =>
       /\ \A c \in Range(lastPool.before) :
            c \in lastPool.stale /\ connState[c] = "destroyed"
       /\ cacheList = <<>>
  /\ lastPool.kind = "new" => cacheList = <<>>

\* a younger connection was returned while an over-age one stays queued behind it
C3_Witness ==
  /\ lastPool.kind = "reused"
  /\ \E c \in Range(cacheList) : Age(c) > cacheExpiredDuration

\* C4: no worker is inside an external call (openSystemNFTConn in NewCache,
\* Flush in CloseCache) while it holds cacheLock.
C4_IOOutsideLock ==
  \A w \in Workers : pc[w] \in {"nc_open", "cc_flush"} => cacheLock # w

\* C5: a connection marked by a failed Flush or a failed SetAddElements is
\* never queued by CloseCache and never handed out by NewCache again.
C5_UnhealthyDiscard ==
  /\ \A c \in ConnIds :
       HasNftableConnectionError[c] =>
         /\ c \notin Range(cacheList)
         /\ \A w \in Holders(c) : pc[w] \in {"serve", "cc_flush"}
  /\ \A c \in ConnIds :
       connState[c] = "destroyed" =>
         c \notin Range(cacheList) /\ Holders(c) = {}
  /\ lastPool.kind = "queued" => ~lastPool.marked
  /\ lastPool.kind = "destroyed" /\ lastPool.marked =>
       connState[lastPool.conn] = "destroyed"
  /\ Acquired => ~HasNftableConnectionError[lastPool.conn]

\* CloseCache has just released a marked connection while another is queued
C5_Witness ==
  /\ lastPool.kind = "destroyed"
  /\ lastPool.marked
  /\ cacheList # <<>>

\* C6 as claimed: NewCache, CloseCache of that connection (queued), NewCache,
\* with no pool operation in between and the connection still within its
\* lifetime, returns the same connection twice, whatever else is queued.
C6_ReuseAnyState ==
  reuse.st = 3 /\ reuse.alive => reuse.conn = reuse.was

\* C6 amended: the same holds when, at the second NewCache, the connection is
\* still within its lifetime and every connection the first NewCache left in
\* the queue is over age (in particular when it left the queue empty).
C6_ReuseIdentity ==
  reuse.st = 3 /\ reuse.alive /\ reuse.alone => reuse.conn = reuse.was

C6_Witness ==
  reuse.st = 3 /\ reuse.alive /\ reuse.alone /\ reuse.conn = reuse.was

\* C7: LruIgnoreIp reports true exactly for an address whose entry has
\* ApplyCount >= setLruMaxRetryTimes; a pass never lowers the count of an
\* entry, so the answer goes from false to true only; the gc() of NewCache
\* removes only entries whose ExpireTime has passed, and the addresses it
\* removed are no longer ignored.
C7_IgnoreMonotone ==
  /\ lastPass.kind \in {"ignored", "dispatched"} =>
       /\ lastPass.ignore <=>
            /\ lastPass.ip \in LruKeys(lastPass.before)
            /\ EntryOf(lastPass.before, lastPass.ip)[2] >= setLruMaxRetryTimes
       /\ lastPass.ip \in LruKeys(lastPass.before) =>
            /\ lastPass.ip \in LruKeys(lastPass.after)
            /\ EntryOf(lastPass.after, lastPass.ip)[2] >=
                 EntryOf(lastPass.before, lastPass.ip)[2]
  /\ lastPool.kind = "reused" =>
       \A i \in 1..Len(lastPool.collected) :
         /\ lastPool.collected[i].ExpireTime <= now
         /\ ~LruIgnoreIpResult(recentlyIPCache[lastPool.conn],
                               lastPool.collected[i].ip)

\* the gc() of a reused connection removed an entry that was being ignored
C7_Witness ==
  /\ lastPool.kind = "reused"
  /\ \E i \in 1..Len(lastPool.collected) :
       lastPool.collected[i].ApplyCount >= setLruMaxRetryTimes

\* C8: when an applier of a record's pass reported an error, the pass leaves
\* the entry of the record's address as it was: none inserted, no count added.
C8_RecencyAtomic ==
  lastPass.kind = "dispatched" /\ lastPass.hasError =>
    /\ EntryOf(lastPass.after, lastPass.ip) = EntryOf(lastPass.before, lastPass.ip)
    /\ LruKeys(lastPass.after) = LruKeys(lastPass.before)

\* one applier applied and another failed, for an address that has an entry
C8_Witness ==
  /\ lastPass.kind = "dispatched"
  /\ lastPass.hasError
  /\ lastPass.applyCounter = 1
  /\ lastPass.ip \in LruKeys(lastPass.before)

\* C9: the ApplyCount of an entry is the number of LruUpdateIp calls made for
\* its address since the entry was inserted, whatever rulesCounter was passed
\* and also beyond setLruMaxRetryTimes: the inserting call sets 1, each later
\* call adds 1.
C9_CountGrowth ==
  /\ \A ip \in LruKeys(recentlyIPCache[LruConn]) :
       EntryOf(recentlyIPCache[LruConn], ip)[2] = applyCalls[LruConn][ip]
  /\ lastPass.kind = "update" =>
       EntryOf(lastPass.after, lastPass.ip)[2] =
         EntryOf(lastPass.before, lastPass.ip)[2] + 1

\* an entry has been counted past setLruMaxRetryTimes
C9_Witness ==
  \E ip \in LruKeys(recentlyIPCache[LruConn]) :
    /\ applyCalls[LruConn][ip] > setLruMaxRetryTimes
    /\ applyCalls[LruConn][ip] = MaxCalls

\* C10: a recency cache never holds more than setLruMaxCount entries; an
\* insertion into a full cache evicts the least recently used entry, expired
\* or not, and no other.
C10_CapacityBound ==
  /\ \A c \in ConnIds : Len(recentlyIPCache[c]) <= setLruMaxCount
  /\ ( /\ lastPass.kind = "update"
       /\ lastPass.ip \notin LruKeys(lastPass.before)
       /\ Len(lastPass.before) = setLruMaxCount ) =>
       /\ Len(lastPass.after) = setLruMaxCount
       /\ SubSeq(lastPass.after, 1, setLruMaxCount - 1) = Tail(lastPass.before)
       /\ lastPass.after[setLruMaxCount].ip = lastPass.ip

\* an insertion into a full cache evicted an entry that had not expired
C10_Witness ==
  /\ lastPass.kind = "update"
  /\ lastPass.ip \notin LruKeys(lastPass.before)
  /\ Len(lastPass.before) = setLruMaxCount
  /\ Head(lastPass.before).ExpireTime > now

\* C11: for a response with an address record, the synchronous branch writes
\* the response only when the ServeWorker pass it called has returned and
\* holds no connection; the asynchronous branch has written the response
\* before the pass it starts is entered, so before its NewCache.
C11_ModeOrdering ==
  \A w \in Workers :
    HasValidRecord(handler[w].msg) =>
      /\ ~handler[w].async /\ handler[w].written =>
           /\ handler[w].started
           /\ pc[w] = "idle"
           /\ cache[w] = NoConn
      /\ handler[w].async /\ (handler[w].started \/ pc[w] # "idle") =>
           handler[w].written
      /\ pc[w] # "idle" => handler[w].started

\* asynchronous mode: ServeDNS has returned while the pass it started holds
\* a connection
C11_Witness ==
  \E w \in Workers :
    /\ handler[w].async
    /\ handler[w].at = "idle"
    /\ handler[w].written
    /\ pc[w] = "serve"
    /\ cache[w] # NoConn

\* C12: a MutableNftablesTable call for a (family, name) that was resolved
\* before on the connection lists nothing, creates nothing and returns the
\* handle the first call returned; over all calls a family is listed at most
\* once and a table created at most once, and every call leaves its handle
\* in the cache.
C12_IdempotentResolve ==
  /\ \A f \in Families :
       /\ resolveLog.listings[f] <= 1
       /\ \A n \in Range(TableNames) :
            /\ resolveLog.creations[f][n] <= 1
            /\ resolveLog.first[f][n] # NoHandle =>
                 tables[LruConn][f][n] = resolveLog.first[f][n]
  /\ lastResolve.kind = "resolve" =>
       /\ lastResolve.handle # NoHandle
       /\ tables[LruConn][lastResolve.family][lastResolve.name] = lastResolve.handle
       /\ lastResolve.first # NoHandle =>
            /\ lastResolve.listed = 0
            /\ lastResolve.created = 0
            /\ lastResolve.handle = lastResolve.first

\* a second call for a table that the first call listed for and created
C12_Witness ==
  /\ lastResolve.kind = "resolve"
  /\ lastResolve.first # NoHandle
  /\ resolveLog.listings[lastResolve.family] = 1
  /\ resolveLog.creations[lastResolve.family][lastResolve.name] = 1

\* C13: when NewCache found no connection within its lifetime in the queue
\* and openSystemNFTConn failed, the ServeWorker pass is over with that step:
\* it holds no connection, visits no record, used no recency cache and queued
\* nothing; a pass that is past NewCache always holds a live connection.
C13_OpenFailureAborts ==
  /\ lastPool.kind = "failed" =>
       /\ \A c \in Range(lastPool.before) : Age(c) > cacheExpiredDuration
       /\ pc[lastPool.w] = "idle"
       /\ cache[lastPool.w] = NoConn
       /\ todo[lastPool.w] = 0
       /\ lastPass = NoPass
       /\ cacheList = lastPool.before
       /\ cacheList = <<>>
  /\ \A w \in Workers :
       pc[w] \in {"serve", "cc_flush", "cc_lock", "cc_push"} =>
         /\ cache[w] # NoConn
         /\ connState[cache[w]] = "live"

\* openSystemNFTConn failed after the pop loop had destroyed an over-age
\* connection
C13_Witness ==
  /\ lastPool.kind = "failed"
  /\ \E c \in ConnIds : connState[c] = "destroyed"

\* the record type that carries an address
RrtypeOf(ip) == (CHOOSE a \in Answers : a.ip = ip).Rrtype

\* the place of a family in the family list of a record type
FamilyIndex(rrtype, f) ==
  CHOOSE i \in 1..Len(TableFamilies(rrtype)) : TableFamilies(rrtype)[i] = f

\* C14: for an address record that is not ignored, every rule configured for
\* each of its table families is called exactly once, family by family in
\* list order, whatever the earlier calls reported, and nothing else is
\* called; afterwards the loop over the answer records goes on with the
\* next record.
C14_NoEarlyAbort ==
  lastPass.kind = "dispatched" =>
    LET rr == RrtypeOf(lastPass.ip)
        fams == Range(TableFamilies(rr)) \cap DOMAIN Rules
        t == lastPass.trace
    IN /\ \A f \in fams : \A i \in 1..Len(Rules[f]) :
            Cardinality({ k \in 1..Len(t) :
                            t[k] = [family |-> f, rule |-> Rules[f][i]] }) = 1
       /\ \A k \in 1..Len(t) :
            /\ t[k].family \in fams
            /\ \E i \in 1..Len(Rules[t[k].family]) :
                 Rules[t[k].family][i] = t[k].rule
       /\ \A k, m \in 1..Len(t) :
            k < m => FamilyIndex(rr, t[k].family) <= FamilyIndex(rr, t[m].family)
       /\ lastPass.invoked = Len(t)
       /\ pc[lastPass.w] = "serve"
       /\ todo[lastPass.w] = lastPass.left - 1

\* an applier was called after an earlier one of the same record had
\* reported an error, and records of the response are left to visit
C14_Witness ==
  /\ lastPass.kind = "dispatched"
  /\ lastPass.hasError
  /\ lastPass.afterError >= 1
  /\ lastPass.applyCounter = 1
  /\ todo[lastPass.w] >= 1

\* C15: a record that is dispatched with no applier error has LruUpdateIp
\* called once for its address, so the count of its entry is one more than
\* before (1 for a new entry), also when applyCounter is 0; this happens once
\* every configured applier of its families was called.  An ignored record
\* and a record that is no address have no applier called and no entry
\* inserted or changed.
C15_RecordRegardlessOfCounter ==
  /\ lastPass.kind = "dispatched" /\ ~lastPass.hasError =>
       /\ lastPass.ip \in LruKeys(lastPass.after)
       /\ EntryOf(lastPass.after, lastPass.ip)[2] =
            EntryOf(lastPass.before, lastPass.ip)[2] + 1
       /\ lastPass.applyCounter <= lastPass.invoked
       /\ lastPass.invoked =
            Len(ApplierCalls(TableFamilies(RrtypeOf(lastPass.ip))))
  /\ lastPass.kind \in {"ignored", "skipped"} =>
       /\ lastPass.invoked = 0
       /\ lastPass.trace = <<>>
       /\ LruKeys(lastPass.after) = LruKeys(lastPass.before)
       /\ \A ip \in IPs :
            EntryOf(lastPass.after, ip) = EntryOf(lastPass.before, ip)

\* a record none of whose families has a configured rule is recorded with
\* applyCounter 0
C15_Witness ==
  /\ lastPass.kind = "dispatched"
  /\ ~lastPass.hasError
  /\ lastPass.invoked = 0
  /\ lastPass.applyCounter = 0
  /\ EntryOf(lastPass.after, lastPass.ip)[2] >= 1

\* C16: gc() removes a run of entries from the least recently used end, all
\* of them expired (ExpireTime not after now), keeps the rest as it was, and
\* leaves the cache empty or with a least recently used entry that has not
\* expired.
C16_GcMaximalRun ==
  lastPass.kind = "gc" =>
    LET b == lastPass.before
        a == lastPass.after
        k == Len(b) - Len(a)
    IN /\ k >= 0
       /\ a = SubSeq(b, k + 1, Len(b))
       /\ \A i \in 1..k : b[i].ExpireTime <= now
       /\ a = <<>> \/ a[1].ExpireTime > now
       /\ recentlyIPCache[lastPass.conn] = a

\* gc() stopped at an unexpired entry and left an expired one behind it
C16_Witness ==
  /\ lastPass.kind = "gc"
  /\ Len(lastPass.after) = 2
  /\ lastPass.after[1].ExpireTime > now
  /\ lastPass.after[2].ExpireTime <= now

\* C17: LruUpdateIp gives a new entry the ExpireTime now + setLruTimeout;
\* no call of LruIgnoreIp, LruUpdateIp or gc() changes the ExpireTime of an
\* entry that stays in the cache.
C17_ExpireFixed ==
  lastPass.kind \in {"update", "check", "gc"} =>
    /\ \A ip \in LruKeys(lastPass.before) \cap LruKeys(lastPass.after) :
         EntryOf(lastPass.after, ip)[1] = EntryOf(lastPass.before, ip)[1]
    /\ ( /\ lastPass.kind = "update"
         /\ lastPass.ip \notin LruKeys(lastPass.before) ) =>
         EntryOf(lastPass.after, lastPass.ip)[1] = now + setLruTimeout

\* LruUpdateIp was called for an entry inserted at an earlier time
C17_Witness ==
  /\ lastPass.kind = "update"
  /\ lastPass.ip \in LruKeys(lastPass.before)
  /\ EntryOf(lastPass.before, lastPass.ip)[1] < now + setLruTimeout
  /\ EntryOf(lastPass.after, lastPass.ip)[2] >= 2

\* max(1, setLruMaxRetryTimes)
RetryCeiling == IF setLruMaxRetryTimes > 1 THEN setLruMaxRetryTimes ELSE 1

\* C19: with setLruMaxRetryTimes left as it is, ServeWorker passes keep the
\* ApplyCount of every entry of every recency cache between 1 and
\* max(1, setLruMaxRetryTimes), and no address has LruUpdateIp called for it
\* more often than that while its entry stays in the cache.
C19_RetryCeiling ==
  \A c \in ConnIds :
    /\ \A i \in 1..Len(recentlyIPCache[c]) :
         /\ recentlyIPCache[c][i].ApplyCount >= 1
         /\ recentlyIPCache[c][i].ApplyCount <= RetryCeiling
    /\ \A ip \in IPs : applyCalls[c][ip] <= RetryCeiling

\* a limit below 1: the last record of a response is ignored for an address
\* whose entry was counted once
C19_Witness ==
  /\ setLruMaxRetryTimes < 1
  /\ lastPass.kind = "ignored"
  /\ lastPass.left = 1
  /\ EntryOf(lastPass.after, lastPass.ip)[2] = 1
  /\ applyCalls[lastPass.conn][lastPass.ip] = 1

\* C20: LruIgnoreIp leaves a cache without an entry for the address as it
\* was; otherwise it moves that entry, unchanged, to the most recently used
\* position and keeps every other entry and their order.  In the cache it
\* leaves, gc() removes that entry only together with all others, and an
\* insertion that evicts for capacity evicts another entry when there is one.
C20_TouchingRead ==
  lastPass.kind = "check" =>
    LET b == lastPass.before
        a == lastPass.after
        ip == lastPass.ip
        Other(e) == e.ip # ip
    IN /\ recentlyIPCache[lastPass.conn] = a
       /\ ip \notin LruKeys(b) => a = b
       /\ ip \in LruKeys(b) =>
            /\ Len(a) = Len(b)
            /\ a[Len(a)] = LruPeek(b, ip)
            /\ SubSeq(a, 1, Len(a) - 1) = SelectSeq(b, Other)
            /\ gc(a) # <<>> => ip \in LruKeys(gc(a))
            /\ \A new \in IPs \ LruKeys(a) :
                 Len(a) > 1 =>
                   ip \in LruKeys(LruAdd(a, [ip |-> new,
                                             ExpireTime |-> now + setLruTimeout,
                                             ApplyCount |-> 1]))

\* an address that is being ignored was read while its entry was the least
\* recently used of a full cache
C20_Witness ==
  /\ lastPass.kind = "check"
  /\ lastPass.ignore
  /\ Len(lastPass.before) = setLruMaxCount
  /\ Head(lastPass.before).ip = lastPass.ip
  /\ Head(lastPass.before).ExpireTime <= now

====
